---- MODULE Spec2Model ----
(***************************************************************************)
(* A model of src/embedding.py: preprocess_text, split_text and            *)
(* get_embedding.  A Python str is a sequence of one-character strings.    *)
(* One behaviour is one top-level call, of split_text or of get_embedding, *)
(* run statement by statement.  The tokenizer (tiktoken) and the embedding *)
(* provider (OpenAI) are external: the tokenizer is one of a small family  *)
(* of counters, the provider answers each call with any vector of a pool   *)
(* or with an error.                                                       *)
(***************************************************************************)
EXTENDS Integers, Sequences, FiniteSets, TLC

\* ------------------------------------------------------------ bounds
\* Longest text handed to split_text directly.
MaxLen == 4
\* Longest raw text handed to get_embedding.
MaxInput == 5
\* Largest token budget tried (the source's 4000, scaled to the texts above).
MaxBudget == 2

\* Characters of the texts handed to split_text.
Alphabet == {"a", "b", " ", "\n", "."}
\* Characters of the raw texts handed to get_embedding: one word character,
\* the two kinds of whitespace, one punctuation character.
InputAlphabet == {"a", " ", "\n", "."}
\* Tokens a tokenizer adds for each space that joins two words.
SepCosts == {0, 1}
\* Vectors the provider may answer with; one of them has another length.
VecPool == {<<1, 2, 3>>, <<3, 4, 5>>, <<5, 0, 1>>, <<2, 4>>}
\* Errors the provider may raise.
ProviderErrors == {"network", "quota"}

Strings(chars, n) == UNION {[1..k -> chars] : k \in 0..n}

VARIABLES
    call,            \* the function the caller invoked
    input,           \* its text argument
    max_tokens,      \* the token budget (split_text's max_tokens, get_embedding's 4000)
    sepCost,         \* the tokenizer in use
    pc,              \* position in the code
    text,            \* split_text: parameter text
    para_it,         \* split_text: paragraphs still to visit (for para in paragraphs)
    sent_it,         \* split_text: sentences still to visit
    word_it,         \* split_text: words still to visit
    chunk_it,        \* split_text: chunks still to visit (for chunk in chunks)
    chunks, current_chunk, current_length, temp_chunk, temp_length, final_chunks,
    ntext,           \* get_embedding: text after preprocess_text
    token_count,     \* get_embedding: token_count
    i,               \* get_embedding: enumerate index, 1-based
    embeddings,      \* get_embedding: embeddings
    calls,           \* the provider's log: one record per call received
    result,          \* the value returned to the caller
    outcome,         \* "running" | "returned" | "raised"
    raised           \* the exception that reached the caller

splitVars == <<text, para_it, sent_it, word_it, chunk_it, chunks, current_chunk,
               current_length, temp_chunk, temp_length, final_chunks>>
embedVars == <<ntext, token_count, i, embeddings, calls>>
endVars == <<result, outcome, raised>>
argVars == <<call, input, max_tokens, sepCost>>
vars == <<argVars, pc, splitVars, embedVars, endVars>>

\* ------------------------------------------------------------ strings
\* str.isspace / \s
IsSpace(c) == c \in {" ", "\n"}
\* \w
IsWordChar(c) == c \in {"a", "b"}
\* [.!?]
IsTerminator(c) == c = "."

MinOf(S) == CHOOSE x \in S : \A y \in S : x <= y
MaxOf(S) == CHOOSE x \in S : \A y \in S : x >= y

\* s[from:], 1-based
Drop(s, from) == SubSeq(s, from, Len(s))

\* str.strip()
Strip(s) ==
    LET keep == {k \in 1..Len(s) : ~IsSpace(s[k])}
    IN  IF keep = {} THEN <<>> ELSE SubSeq(s, MinOf(keep), MaxOf(keep))

\* str.split(): the maximal runs of non-whitespace, none empty
RECURSIVE SplitWords(_)
SplitWords(s) ==
    IF s = <<>> THEN <<>>
    ELSE IF IsSpace(Head(s)) THEN SplitWords(Tail(s))
    ELSE LET ws == {k \in 1..Len(s) : IsSpace(s[k])}
             n == IF ws = {} THEN Len(s) ELSE MinOf(ws) - 1
         IN  <<SubSeq(s, 1, n)>> \o SplitWords(Drop(s, n + 1))

\* ' '.join(units)
RECURSIVE Join(_)
Join(units) ==
    IF units = <<>> THEN <<>>
    ELSE IF Len(units) = 1 THEN units[1]
    ELSE units[1] \o <<" ">> \o Join(Tail(units))

\* text.split('\n\n'): cut at each blank line, left to right, empty pieces kept
RECURSIVE SplitParagraphs(_)
SplitParagraphs(s) ==
    LET at == {k \in 1..(Len(s) - 1) : s[k] = "\n" /\ s[k + 1] = "\n"}
    IN  IF at = {} THEN <<s>>
        ELSE <<SubSeq(s, 1, MinOf(at) - 1)>> \o SplitParagraphs(Drop(s, MinOf(at) + 2))

\* re.split(r'[.!?]+', para): cut at each maximal run of terminators, empty pieces kept
RECURSIVE SplitSentences(_)
SplitSentences(s) ==
    LET at == {k \in 1..Len(s) : IsTerminator(s[k])}
    IN  IF at = {} THEN <<s>>
        ELSE LET first == MinOf(at)
                 after == {k \in first..Len(s) : ~IsTerminator(s[k])}
                 next == IF after = {} THEN Len(s) + 1 ELSE MinOf(after)
             IN  <<SubSeq(s, 1, first - 1)>> \o SplitSentences(Drop(s, next))

\* ------------------------------------------------------------ count_tokens
\* The tokenizer: one token per non-whitespace character, and sepCost tokens for
\* each space that joins two words.
CountTokens(s) ==
    LET nw == Len(SplitWords(s))
    IN  Cardinality({k \in 1..Len(s) : ~IsSpace(s[k])})
        + sepCost * (IF nw > 1 THEN nw - 1 ELSE 0)

\* ------------------------------------------------------------ preprocess_text
\* re.sub(r'[^\w\s]', ' ', text)
ReplaceSpecial(s) ==
    [k \in 1..Len(s) |-> IF IsWordChar(s[k]) \/ IsSpace(s[k]) THEN s[k] ELSE " "]

\* re.sub(r'\s+', ' ', text)
RECURSIVE CollapseSpaces(_)
CollapseSpaces(s) ==
    IF s = <<>> THEN <<>>
    ELSE IF ~IsSpace(Head(s)) THEN <<Head(s)>> \o CollapseSpaces(Tail(s))
    ELSE LET after == {k \in 1..Len(s) : ~IsSpace(s[k])}
         IN  <<" ">> \o (IF after = {} THEN <<>> ELSE CollapseSpaces(Drop(s, MinOf(after))))

PreprocessText_nostrip(s) == CollapseSpaces(ReplaceSpecial(Join(SplitWords(s))))

PreprocessText(s) == Strip(CollapseSpaces(ReplaceSpecial(Join(SplitWords(s)))))

\* ------------------------------------------------------------ initial states
NoSplitState ==
    /\ text = <<>> /\ para_it = <<>> /\ sent_it = <<>> /\ word_it = <<>>
    /\ chunk_it = <<>> /\ chunks = <<>> /\ current_chunk = <<>> /\ current_length = 0
    /\ temp_chunk = <<>> /\ temp_length = 0 /\ final_chunks = <<>>

Init ==
    /\ \/ call = "split_text" /\ input \in Strings(Alphabet, MaxLen)
       \/ call = "get_embedding" /\ input \in Strings(InputAlphabet, MaxInput)
    /\ max_tokens \in 1..MaxBudget
    /\ sepCost \in SepCosts
    /\ pc = "call"
    /\ NoSplitState
    /\ ntext = <<>> /\ token_count = 0 /\ i = 1 /\ embeddings = <<>> /\ calls = <<>>
    /\ result = <<>> /\ outcome = "running" /\ raised = "none"

\* ------------------------------------------------------------ split_text
\* lines 49-52: entry of split_text(text, max_tokens)
SplitTextEntry ==
    /\ pc = "split"
    /\ para_it' = SplitParagraphs(text)
    /\ chunks' = <<>> /\ current_chunk' = <<>> /\ current_length' = 0
    /\ pc' = "para"
    /\ UNCHANGED <<text, sent_it, word_it, chunk_it, temp_chunk, temp_length, final_chunks>>
    /\ UNCHANGED <<argVars, embedVars, endVars>>

\* lines 54-57: an empty paragraph is skipped
ParaSkip ==
    /\ pc = "para" /\ para_it # <<>>
    /\ Strip(Head(para_it)) = <<>>
    /\ para_it' = Tail(para_it)
    /\ UNCHANGED <<pc, text, sent_it, word_it, chunk_it, chunks, current_chunk,
                   current_length, temp_chunk, temp_length, final_chunks>>
    /\ UNCHANGED <<argVars, embedVars, endVars>>

\* lines 60-61: a paragraph over the budget is cut into sentences
ParaSplit ==
    /\ pc = "para" /\ para_it # <<>>
    /\ LET para == Strip(Head(para_it))
       IN  /\ para # <<>>
           /\ CountTokens(para) > max_tokens
           /\ sent_it' = SplitSentences(para)
    /\ para_it' = Tail(para_it)
    /\ pc' = "sent"
    /\ UNCHANGED <<text, word_it, chunk_it, chunks, current_chunk, current_length,
                   temp_chunk, temp_length, final_chunks>>
    /\ UNCHANGED <<argVars, embedVars, endVars>>

ParaPack_noskip ==
    /\ pc = "para" /\ para_it # <<>>
    /\ LET para == Strip(Head(para_it))
           para_tokens == CountTokens(para)
       IN  /\ para_tokens <= max_tokens
           /\ IF current_length + para_tokens > max_tokens
              THEN /\ chunks' = IF current_chunk # <<>>
                                THEN Append(chunks, Join(current_chunk)) ELSE chunks
                   /\ current_chunk' = <<para>>
                   /\ current_length' = para_tokens
              ELSE /\ current_chunk' = Append(current_chunk, para)
                   /\ current_length' = current_length + para_tokens
                   /\ chunks' = chunks
    /\ para_it' = Tail(para_it)
    /\ UNCHANGED <<pc, text, sent_it, word_it, chunk_it, temp_chunk, temp_length,
                   final_chunks>>
    /\ UNCHANGED <<argVars, embedVars, endVars>>

\* lines 97-107: a paragraph within the budget is added to the current chunk,
\* which is flushed first when the paragraph does not fit
ParaPack ==
    /\ pc = "para" /\ para_it # <<>>
    /\ LET para == Strip(Head(para_it))
           para_tokens == CountTokens(para)
       IN  /\ para # <<>>
           /\ para_tokens <= max_tokens
           /\ IF current_length + para_tokens > max_tokens
              THEN /\ chunks' = IF current_chunk # <<>>
                                THEN Append(chunks, Join(current_chunk)) ELSE chunks
                   /\ current_chunk' = <<para>>
                   /\ current_length' = para_tokens
              ELSE /\ current_chunk' = Append(current_chunk, para)
                   /\ current_length' = current_length + para_tokens
                   /\ chunks' = chunks
    /\ para_it' = Tail(para_it)
    /\ UNCHANGED <<pc, text, sent_it, word_it, chunk_it, temp_chunk, temp_length,
                   final_chunks>>
    /\ UNCHANGED <<argVars, embedVars, endVars>>

\* lines 62-65: an empty sentence is skipped
SentSkip ==
    /\ pc = "sent" /\ sent_it # <<>>
    /\ Strip(Head(sent_it)) = <<>>
    /\ sent_it' = Tail(sent_it)
    /\ UNCHANGED <<pc, text, para_it, word_it, chunk_it, chunks, current_chunk,
                   current_length, temp_chunk, temp_length, final_chunks>>
    /\ UNCHANGED <<argVars, embedVars, endVars>>

\* lines 68-71: a sentence over the budget is cut into words
SentSplit ==
    /\ pc = "sent" /\ sent_it # <<>>
    /\ LET sentence == Strip(Head(sent_it))
       IN  /\ sentence # <<>>
           /\ CountTokens(sentence) > max_tokens
           /\ word_it' = SplitWords(sentence)
    /\ temp_chunk' = <<>> /\ temp_length' = 0
    /\ sent_it' = Tail(sent_it)
    /\ pc' = "word"
    /\ UNCHANGED <<text, para_it, chunk_it, chunks, current_chunk, current_length,
                   final_chunks>>
    /\ UNCHANGED <<argVars, embedVars, endVars>>

\* lines 86-96: a sentence within the budget is added to the current chunk
SentPack ==
    /\ pc = "sent" /\ sent_it # <<>>
    /\ LET sentence == Strip(Head(sent_it))
           sentence_tokens == CountTokens(sentence)
       IN  /\ sentence # <<>>
           /\ sentence_tokens <= max_tokens
           /\ IF current_length + sentence_tokens > max_tokens
              THEN /\ chunks' = IF current_chunk # <<>>
                                THEN Append(chunks, Join(current_chunk)) ELSE chunks
                   /\ current_chunk' = <<sentence>>
                   /\ current_length' = sentence_tokens
              ELSE /\ current_chunk' = Append(current_chunk, sentence)
                   /\ current_length' = current_length + sentence_tokens
                   /\ chunks' = chunks
    /\ sent_it' = Tail(sent_it)
    /\ UNCHANGED <<pc, text, para_it, word_it, chunk_it, temp_chunk, temp_length,
                   final_chunks>>
    /\ UNCHANGED <<argVars, embedVars, endVars>>

\* line 62: the sentences of the paragraph are exhausted
SentDone ==
    /\ pc = "sent" /\ sent_it = <<>>
    /\ pc' = "para"
    /\ UNCHANGED <<splitVars, argVars, embedVars, endVars>>

WordPack_keeplength ==
    /\ pc = "word" /\ word_it # <<>>
    /\ LET word == Head(word_it)
           word_tokens == CountTokens(word)
       IN  IF temp_length + word_tokens > max_tokens
           THEN /\ chunks' = IF temp_chunk # <<>>
                             THEN Append(chunks, Join(temp_chunk)) ELSE chunks
                /\ temp_chunk' = <<word>>
                /\ temp_length' = temp_length + word_tokens
           ELSE /\ temp_chunk' = Append(temp_chunk, word)
                /\ temp_length' = temp_length + word_tokens
                /\ chunks' = chunks
    /\ word_it' = Tail(word_it)
    /\ UNCHANGED <<pc, text, para_it, sent_it, chunk_it, current_chunk, current_length,
                   final_chunks>>
    /\ UNCHANGED <<argVars, embedVars, endVars>>

\* lines 73-82: a word is added to the word-level chunk, which is flushed first
\* when the word does not fit
WordPack ==
    /\ pc = "word" /\ word_it # <<>>
    /\ LET word == Head(word_it)
           word_tokens == CountTokens(word)
       IN  IF temp_length + word_tokens > max_tokens
           THEN /\ chunks' = IF temp_chunk # <<>>
                             THEN Append(chunks, Join(temp_chunk)) ELSE chunks
                /\ temp_chunk' = <<word>>
                /\ temp_length' = word_tokens
           ELSE /\ temp_chunk' = Append(temp_chunk, word)
                /\ temp_length' = temp_length + word_tokens
                /\ chunks' = chunks
    /\ word_it' = Tail(word_it)
    /\ UNCHANGED <<pc, text, para_it, sent_it, chunk_it, current_chunk, current_length,
                   final_chunks>>
    /\ UNCHANGED <<argVars, embedVars, endVars>>

\* lines 84-85: the words are exhausted; what is left of the word-level chunk is emitted
WordDone ==
    /\ pc = "word" /\ word_it = <<>>
    /\ chunks' = IF temp_chunk # <<>> THEN Append(chunks, Join(temp_chunk)) ELSE chunks
    /\ pc' = "sent"
    /\ UNCHANGED <<text, para_it, sent_it, word_it, chunk_it, current_chunk,
                   current_length, temp_chunk, temp_length, final_chunks>>
    /\ UNCHANGED <<argVars, embedVars, endVars>>

\* lines 109-113: the paragraphs are exhausted; the current chunk is emitted and the
\* validation pass over chunks begins
FinalFlush ==
    /\ pc = "para" /\ para_it = <<>>
    /\ chunks' = IF current_chunk # <<>>
                 THEN Append(chunks, Join(current_chunk)) ELSE chunks
    /\ final_chunks' = <<>>
    /\ chunk_it' = chunks'
    /\ pc' = "post"
    /\ UNCHANGED <<text, para_it, sent_it, word_it, current_chunk, current_length,
                   temp_chunk, temp_length>>
    /\ UNCHANGED <<argVars, embedVars, endVars>>

\* lines 114-115, 134-135: a chunk within the budget is kept as it is
PostKeep ==
    /\ pc = "post" /\ chunk_it # <<>>
    /\ CountTokens(Head(chunk_it)) <= max_tokens
    /\ final_chunks' = Append(final_chunks, Head(chunk_it))
    /\ chunk_it' = Tail(chunk_it)
    /\ UNCHANGED <<pc, text, para_it, sent_it, word_it, chunks, current_chunk,
                   current_length, temp_chunk, temp_length>>
    /\ UNCHANGED <<argVars, embedVars, endVars>>

\* lines 115-119: a chunk over the budget is cut into words
PostSplit ==
    /\ pc = "post" /\ chunk_it # <<>>
    /\ CountTokens(Head(chunk_it)) > max_tokens
    /\ word_it' = SplitWords(Head(chunk_it))
    /\ temp_chunk' = <<>> /\ temp_length' = 0
    /\ chunk_it' = Tail(chunk_it)
    /\ pc' = "pword"
    /\ UNCHANGED <<text, para_it, sent_it, chunks, current_chunk, current_length,
                   final_chunks>>
    /\ UNCHANGED <<argVars, embedVars, endVars>>

\* lines 121-130: the words of an oversized chunk are packed again
PostWordPack ==
    /\ pc = "pword" /\ word_it # <<>>
    /\ LET word == Head(word_it)
           word_tokens == CountTokens(word)
       IN  IF temp_length + word_tokens > max_tokens
           THEN /\ final_chunks' = IF temp_chunk # <<>>
                                   THEN Append(final_chunks, Join(temp_chunk))
                                   ELSE final_chunks
                /\ temp_chunk' = <<word>>
                /\ temp_length' = word_tokens
           ELSE /\ temp_chunk' = Append(temp_chunk, word)
                /\ temp_length' = temp_length + word_tokens
                /\ final_chunks' = final_chunks
    /\ word_it' = Tail(word_it)
    /\ UNCHANGED <<pc, text, para_it, sent_it, chunk_it, chunks, current_chunk,
                   current_length>>
    /\ UNCHANGED <<argVars, embedVars, endVars>>

\* lines 132-133: what is left of the word-level chunk is emitted
PostWordDone ==
    /\ pc = "pword" /\ word_it = <<>>
    /\ final_chunks' = IF temp_chunk # <<>>
                       THEN Append(final_chunks, Join(temp_chunk)) ELSE final_chunks
    /\ pc' = "post"
    /\ UNCHANGED <<text, para_it, sent_it, word_it, chunk_it, chunks, current_chunk,
                   current_length, temp_chunk, temp_length>>
    /\ UNCHANGED <<argVars, embedVars, endVars>>

\* line 137: return final_chunks, to the caller or to get_embedding (line 152)
SplitTextReturn ==
    /\ pc = "post" /\ chunk_it = <<>>
    /\ IF call = "split_text"
       THEN /\ result' = final_chunks /\ outcome' = "returned" /\ pc' = "done"
       ELSE /\ pc' = "embed" /\ UNCHANGED <<result, outcome>>
    /\ UNCHANGED <<splitVars, argVars, embedVars, raised>>

\* the caller invokes split_text(input, max_tokens)
CallSplitText ==
    /\ pc = "call" /\ call = "split_text"
    /\ text' = input
    /\ pc' = "split"
    /\ UNCHANGED <<para_it, sent_it, word_it, chunk_it, chunks, current_chunk,
                   current_length, temp_chunk, temp_length, final_chunks>>
    /\ UNCHANGED <<argVars, embedVars, endVars>>

SplitTextStep ==
    \/ SplitTextEntry
    \/ ParaSkip \/ ParaSplit \/ ParaPack
    \/ SentSkip \/ SentSplit \/ SentPack \/ SentDone
    \/ WordPack \/ WordDone
    \/ FinalFlush
    \/ PostKeep \/ PostSplit \/ PostWordPack \/ PostWordDone
    \/ SplitTextReturn

\* ------------------------------------------------------------ get_embedding
\* line 150: the text is split when its token count is over the threshold
NeedsSplit_atleast(n) == n >= max_tokens

NeedsSplit(n) == n > max_tokens

\* lines 143-152 and 175-176: normalize, count, and take the split path or the
\* single-call path
GetEmbedding ==
    /\ pc = "call" /\ call = "get_embedding"
    /\ ntext' = PreprocessText(input)
    /\ token_count' = CountTokens(ntext')
    /\ IF NeedsSplit(token_count')
       THEN /\ text' = ntext' /\ pc' = "split"
       ELSE /\ text' = text /\ pc' = "single"
    /\ UNCHANGED <<para_it, sent_it, word_it, chunk_it, chunks, current_chunk,
                   current_length, temp_chunk, temp_length, final_chunks>>
    /\ UNCHANGED <<argVars, i, embeddings, calls, endVars>>

\* A provider call as the provider saw it.
Answered(inp, vec) == [input |-> inp, ok |-> TRUE, vec |-> vec, err |-> "none"]
Failed(inp, err) == [input |-> inp, ok |-> FALSE, vec |-> <<>>, err |-> err]

\* lines 177-182: one call with the normalized text; its vector is returned
SingleCall ==
    /\ pc = "single"
    /\ \E v \in VecPool :
          /\ calls' = Append(calls, Answered(ntext, v))
          /\ result' = v
    /\ outcome' = "returned"
    /\ pc' = "done"
    /\ UNCHANGED <<splitVars, argVars, ntext, token_count, i, embeddings, raised>>

\* lines 177-180: the call fails; nothing catches the exception
SingleCallFails ==
    /\ pc = "single"
    /\ \E e \in ProviderErrors :
          /\ calls' = Append(calls, Failed(ntext, e))
          /\ raised' = e
    /\ outcome' = "raised"
    /\ pc' = "done"
    /\ UNCHANGED <<splitVars, argVars, ntext, token_count, i, embeddings, result>>

\* lines 154-164: the call for chunk i succeeds; its vector is collected
ChunkCall ==
    /\ pc = "embed" /\ i <= Len(final_chunks)
    /\ \E v \in VecPool :
          /\ calls' = Append(calls, Answered(final_chunks[i], v))
          /\ embeddings' = Append(embeddings, v)
    /\ i' = i + 1
    /\ UNCHANGED <<pc, splitVars, argVars, ntext, token_count, endVars>>

ChunkCallFails_swallowed ==
    /\ pc = "embed" /\ i <= Len(final_chunks)
    /\ \E e \in ProviderErrors : calls' = Append(calls, Failed(final_chunks[i], e))
    /\ i' = i + 1
    /\ UNCHANGED <<pc, splitVars, argVars, ntext, token_count, embeddings, endVars>>

\* lines 159-162, 165-168: the call for chunk i fails; the handler logs and
\* raises the same exception again
ChunkCallFails ==
    /\ pc = "embed" /\ i <= Len(final_chunks)
    /\ \E e \in ProviderErrors :
          /\ calls' = Append(calls, Failed(final_chunks[i], e))
          /\ raised' = e
    /\ outcome' = "raised"
    /\ pc' = "done"
    /\ UNCHANGED <<splitVars, argVars, ntext, token_count, i, embeddings, result>>

\* zip(*embeddings): one tuple per position, up to the shortest vector
Zip(vs) ==
    IF vs = <<>> THEN <<>>
    ELSE [k \in 1..MinOf({Len(vs[j]) : j \in 1..Len(vs)}) |->
            [j \in 1..Len(vs) |-> vs[j][k]]]

\* sum(x)
RECURSIVE Sum(_)
Sum(x) == IF x = <<>> THEN 0 ELSE Head(x) + Sum(Tail(x))

Mean_first(x) == [num |-> Head(x), den |-> Len(x)]

\* sum(x) / len(x): the quotient, kept as the fraction num/den
Mean(x) == [num |-> Sum(x), den |-> Len(x)]

\* lines 170-174: every chunk is embedded; the element-wise mean is returned
Average ==
    /\ pc = "embed" /\ i > Len(final_chunks)
    /\ result' = LET z == Zip(embeddings) IN [k \in 1..Len(z) |-> Mean(z[k])]
    /\ outcome' = "returned"
    /\ pc' = "done"
    /\ UNCHANGED <<splitVars, argVars, embedVars, raised>>

GetEmbeddingStep ==
    \/ GetEmbedding
    \/ SingleCall \/ SingleCallFails
    \/ ChunkCall \/ ChunkCallFails
    \/ Average

Next == CallSplitText \/ SplitTextStep \/ GetEmbeddingStep

Spec == Init /\ [][Next]_vars

\* ------------------------------------------------------------ properties
SplitReturned == pc = "done" /\ call = "split_text"
OnSplitPath == call = "get_embedding" /\ pc \in {"embed", "done"} /\ token_count > max_tokens
HasNoSpace(s) == \A k \in 1..Len(s) : ~IsSpace(s[k])
\* The characters of s that are neither whitespace nor sentence terminators.
Content(s) == SelectSeq(s, LAMBDA c : ~IsSpace(c) /\ ~IsTerminator(c))
\* sum of count_tokens(u) over the units u of an accumulator
RECURSIVE TokenSum(_)
TokenSum(units) ==
    IF units = <<>> THEN 0 ELSE CountTokens(Head(units)) + TokenSum(Tail(units))
\* sum over the first k provider calls of element idx of the vector returned
RECURSIVE ColumnSum(_, _)
ColumnSum(k, idx) == IF k = 0 THEN 0 ELSE calls[k].vec[idx] + ColumnSum(k - 1, idx)

\* C1 (budget respect): when split_text returns for a non-empty text, every chunk
\* has at most max_tokens tokens, or is a single word (no whitespace inside) whose
\* own token count is over max_tokens; for every tokenizer of the family.
C1_BudgetRespect ==
    (SplitReturned /\ input # <<>>) =>
        \A k \in 1..Len(result) :
            \/ CountTokens(result[k]) <= max_tokens
            \/ HasNoSpace(result[k]) /\ CountTokens(result[k]) > max_tokens

\* C2 (chunk order): when split_text returns, the content of the chunks, read in
\* output order, is the content of the text in source order: no chunk that holds
\* earlier text follows a chunk that holds later text.
C2_ChunkOrder ==
    SplitReturned => Content(Join(result)) = Content(input)

\* C3 (coverage): when split_text returns, the words of the chunks joined in output
\* order are the words of the normalized text, in order, none dropped, none twice.
\* Both sides are normalized the same way, so punctuation a chunk keeps is not
\* counted as a difference.
C3_Coverage ==
    SplitReturned =>
        SplitWords(PreprocessText(Join(result))) = SplitWords(PreprocessText(input))

\* C4 (failure propagation): on the split path of get_embedding a failed provider
\* call is the last call made, the exception that reaches the caller is the
\* provider's, and no vector is returned.
C4_FailurePropagation ==
    OnSplitPath =>
        \A k \in 1..Len(calls) :
            ~calls[k].ok =>
                /\ k = Len(calls)
                /\ pc = "done"
                /\ outcome = "raised"
                /\ raised = calls[k].err
                /\ result = <<>>

\* The call for the second of three chunks failed after the first succeeded.
C4_Witness ==
    /\ OnSplitPath /\ outcome = "raised"
    /\ Len(final_chunks) = 3 /\ Len(calls) = 2
    /\ calls[1].ok /\ ~calls[2].ok

\* C5 (dimension mismatch is fatal): on the split path, when the chunk vectors do
\* not all have the same length, get_embedding ends in an error and returns no
\* vector.
C5_DimensionMismatchFatal ==
    (/\ OnSplitPath
     /\ pc = "done"
     /\ \A k \in 1..Len(calls) : calls[k].ok
     /\ \E j, k \in 1..Len(calls) : Len(calls[j].vec) # Len(calls[k].vec))
    => outcome = "raised"

\* C6 (single-chunk shortcut): when the normalized text is within the budget,
\* get_embedding never enters split_text, makes exactly one provider call, with the
\* normalized text, and returns that call's vector unchanged.
C6_SingleChunkShortcut ==
    (call = "get_embedding" /\ CountTokens(PreprocessText(input)) <= max_tokens) =>
        /\ pc \in {"call", "single", "done"}
        /\ Len(calls) <= 1
        /\ pc = "done" =>
              /\ Len(calls) = 1
              /\ calls[1].input = PreprocessText(input)
              /\ calls[1].ok => (outcome = "returned" /\ result = calls[1].vec)

\* A text that normalization changed and that is exactly at the budget was embedded
\* with one call.
C6_Witness ==
    /\ call = "get_embedding" /\ pc = "done" /\ outcome = "returned"
    /\ token_count = max_tokens /\ ntext # input
    /\ Len(calls) = 1 /\ result = calls[1].vec

\* C7 (aggregation): on the split path, when every provider call succeeded with a
\* vector of the same length L, there was one call per chunk, in chunk order, and
\* the vector returned has length L and element idx equal to the sum over the
\* chunks of element idx divided by the number of chunks.
C7_Aggregation ==
    (/\ OnSplitPath
     /\ pc = "done"
     /\ \A k \in 1..Len(calls) : calls[k].ok
     /\ \A j, k \in 1..Len(calls) : Len(calls[j].vec) = Len(calls[k].vec))
    =>  /\ outcome = "returned"
        /\ Len(calls) >= 1
        /\ Len(calls) = Len(final_chunks)
        /\ \A k \in 1..Len(calls) : calls[k].input = final_chunks[k]
        /\ Len(result) = Len(calls[1].vec)
        /\ \A idx \in 1..Len(result) :
              /\ result[idx].den > 0
              /\ result[idx].num * Len(final_chunks)
                    = ColumnSum(Len(calls), idx) * result[idx].den

\* The chunk vectors [1,2,3], [3,4,5], [5,0,1] gave [9/3, 6/3, 9/3] = [3, 2, 3].
C7_Witness ==
    /\ OnSplitPath /\ pc = "done" /\ outcome = "returned"
    /\ embeddings = << <<1, 2, 3>>, <<3, 4, 5>>, <<5, 0, 1>> >>
    /\ result = << [num |-> 9, den |-> 3], [num |-> 6, den |-> 3], [num |-> 9, den |-> 3] >>

\* C8 (idempotence of normalization): the text preprocess_text returns is a fixed
\* point of preprocess_text, holds only word characters and single spaces, has no
\* leading or trailing space, and is empty when the input is empty.
C8_NormalizeIdempotent ==
    (call = "get_embedding" /\ pc # "call") =>
        /\ ntext = PreprocessText(input)
        /\ PreprocessText(ntext) = ntext
        /\ \A k \in 1..Len(ntext) : IsWordChar(ntext[k]) \/ ntext[k] = " "
        /\ \A k \in 1..(Len(ntext) - 1) : ~(ntext[k] = " " /\ ntext[k + 1] = " ")
        /\ ntext # <<>> => (ntext[1] # " " /\ ntext[Len(ntext)] # " ")
        /\ input = <<>> => ntext = <<>>

\* A text with punctuation, a newline and outer whitespace was normalized to words
\* joined by a space.
C8_Witness ==
    /\ call = "get_embedding" /\ pc # "call"
    /\ \E k \in 1..Len(input) : input[k] = "."
    /\ \E k \in 1..Len(input) : input[k] = "\n"
    /\ IsSpace(input[1])
    /\ Len(SplitWords(ntext)) = 2

\* C9 (empty units are skipped): split_text of an empty or all-whitespace text
\* returns no chunk; no unit held in an accumulator is empty, and no chunk is empty
\* or begins or ends with whitespace (as the join of an empty unit would).
C9_EmptyUnitsSkipped ==
    /\ (SplitReturned /\ Strip(input) = <<>>) => result = <<>>
    /\ \A k \in 1..Len(current_chunk) : current_chunk[k] # <<>>
    /\ \A k \in 1..Len(temp_chunk) : temp_chunk[k] # <<>>
    /\ \A cs \in {chunks, final_chunks} : \A k \in 1..Len(cs) :
          /\ cs[k] # <<>>
          /\ ~IsSpace(cs[k][1]) /\ ~IsSpace(cs[k][Len(cs[k])])

\* A non-empty text of whitespace and blank lines gave no chunk.
C9_Witness ==
    /\ SplitReturned /\ input # <<>> /\ Strip(input) = <<>> /\ result = <<>>
    /\ Len(SplitParagraphs(input)) >= 2

\* C10 (accumulator accounting): at every step the recorded length of each
\* accumulator is the sum of the token counts of its units, is 0 exactly when the
\* accumulator is empty, is within max_tokens when the accumulator holds two or
\* more units, and is over max_tokens only when it holds exactly one unit.
C10_AccumulatorAccounting ==
    /\ current_length = TokenSum(current_chunk)
    /\ temp_length = TokenSum(temp_chunk)
    /\ current_length = 0 <=> current_chunk = <<>>
    /\ temp_length = 0 <=> temp_chunk = <<>>
    /\ Len(current_chunk) >= 2 => current_length <= max_tokens
    /\ Len(temp_chunk) >= 2 => temp_length <= max_tokens
    /\ current_length > max_tokens => Len(current_chunk) = 1
    /\ temp_length > max_tokens => Len(temp_chunk) = 1

\* The word-level accumulator holds one word that alone is over the budget, while
\* the current chunk holds an earlier sentence.
C10_Witness ==
    /\ pc = "word" /\ Len(temp_chunk) = 1 /\ temp_length > max_tokens
    /\ Len(current_chunk) >= 1

====
